---- MODULE Spec2Model ----
(***************************************************************************)
(* Master/client private chat (src/pC.js): browser sessions of the App     *)
(* component over a shared document store.  The store holds the client's   *)
(* status document and the message collections; every session holds the   *)
(* React state of one mounted App component.                               *)
(***************************************************************************)
EXTENDS Integers, Sequences, FiniteSets, TLC

\* ------------------------------------------------------------------ bounds
\* number of message timestamps handed out
MaxClock == 4
\* message timestamps handed out in the scenarios with two sessions
PairSends == 1
\* handleSendMessage invocations of one session awaiting a store reply
MaxInflight == 1
\* setTimeout timers of one session that are armed at the same time
MaxTimers == 2
\* message documents added to the open chat room
MaxRoomSends == 3

\* --------------------------------------------------------------- constants
HARDCODED_CLIENT_ID == "client_user_12345"
SPECIAL_CODE == <<"U", "N", "L", "O", "C", "K", "1", "2", "3">>
MAX_MESSAGES_BEFORE_LOCK == 3

Null == "null"
\* The status document when it does not exist in the store.
Absent ==
    [exists |-> FALSE, isLoggedIn |-> FALSE, msgCount |-> 0,
     forceLogout |-> FALSE, lastLogin |-> 0]
\* A timer slot: no pending timer, or a pending setTimeout callback.
Off == "off"
Armed == "armed"

\* Browser sessions and the identity the auth service gives each of them:
\* two tabs signed in as the client, one as a master.
Sessions == {"c1", "c2", "m1"}
Uid(s) == IF s = "m1" THEN "master_1" ELSE HARDCODED_CLIENT_ID

\* Texts a user types, as sequences of characters: blank, an ordinary text,
\* the special code in mixed case with surrounding blanks.
EmptyText == << >>
Blank == <<" ">>
Hi == <<"h", "i">>
CodeTyped == <<" ", "u", "n", "L", "o", "c", "k", "1", "2", "3", " ">>
Inputs(s) == IF s = "m1" THEN {Blank, CodeTyped} ELSE {Blank, Hi, CodeTyped}
SystemText == <<"C", "o", "d", "e", " ", "r", "e", "c", "e", "i", "v", "e", "d">>

VARIABLES
    statusDoc,      \* store: users/HARDCODED_CLIENT_ID, a document or Absent
    chats,          \* store: conversation path -> set of message documents
    clock,          \* the time of the latest message timestamp handed out
    userId,         \* per session: React state userId
    userRole,       \* per session: React state userRole
    loading,        \* per session: React state loading
    clientStatus,   \* per session: React state clientStatus
    messages,       \* per session: React state messages
    newMessage,     \* per session: React state newMessage
    modal,          \* per session: which dialog is open
    isTouching,     \* per session: React state isTouching
    timers,         \* per session: timer id -> Armed or Off
    touchTimerRef,  \* per session: touchTimerRef.current (0: unset)
    inflight,       \* per session: handleSendMessage calls awaiting the store
    logoutBy,       \* per session: why handleLogout ran to its end, or Null
    room            \* the open chat room page (src/unnamed/part_000) and its store

appVars == <<statusDoc, chats, clock, userId, userRole, loading, clientStatus,
             messages, newMessage, modal, isTouching, timers, touchTimerRef,
             inflight, logoutBy>>

vars == <<statusDoc, chats, clock, userId, userRole, loading, clientStatus,
          messages, newMessage, modal, isTouching, timers, touchTimerRef,
          inflight, logoutBy, room>>

store == <<statusDoc, chats>>

\* ----------------------------------------------------------- pure helpers
Upper(c) ==
    CASE c = "u" -> "U" [] c = "n" -> "N" [] c = "l" -> "L" [] c = "o" -> "O"
      [] c = "c" -> "C" [] c = "k" -> "K" [] c = "h" -> "H" [] c = "i" -> "I"
      [] OTHER -> c

toUpperCase(t) == [i \in 1..Len(t) |-> Upper(t[i])]

RECURSIVE TrimStart(_)
TrimStart(t) ==
    IF t # << >> /\ Head(t) = " " THEN TrimStart(Tail(t)) ELSE t

RECURSIVE TrimEnd(_)
TrimEnd(t) ==
    IF t # << >> /\ t[Len(t)] = " " THEN TrimEnd(SubSeq(t, 1, Len(t) - 1)) ELSE t

trim(t) == TrimEnd(TrimStart(t))

getChatCollectionPath(mId, cId) == <<mId, cId>>

Paths == { getChatCollectionPath(Uid(s), HARDCODED_CLIENT_ID) : s \in Sessions }

\* useState initial value of clientStatus (no lastLogin field: 0)
DefaultStatus ==
    [isLoggedIn |-> FALSE, msgCount |-> 0, forceLogout |-> FALSE, lastLogin |-> 0]

\* setDoc(ref, data, {merge: true}): the fields of data replace those of the
\* document, a missing document is created from data alone.
MergeSet(docv, data) ==
    [exists |-> TRUE,
     isLoggedIn |-> data.isLoggedIn,
     msgCount |-> data.msgCount,
     forceLogout |-> data.forceLogout,
     lastLogin |-> IF data.lastLogin = 0 THEN docv.lastLogin ELSE data.lastLogin]

masterId(s) ==
    IF userRole[s] = "master" THEN userId[s]
    ELSE IF userRole[s] = "client" THEN userId[s] ELSE Null

\* query(orderBy('timestamp','asc'), limit(50)) over a collection
QUERY_LIMIT == 50
RECURSIVE SortByTimestamp(_)
SortByTimestamp(S) ==
    IF S = {} THEN << >>
    ELSE LET m == CHOOSE x \in S : \A y \in S : x.timestamp <= y.timestamp
         IN  <<m>> \o SortByTimestamp(S \ {m})

QuerySnapshot(path) ==
    LET all == SortByTimestamp(chats[path])
    IN  IF Len(all) <= QUERY_LIMIT THEN all ELSE SubSeq(all, 1, QUERY_LIMIT)

\* StatusSubscribed without the guard at the head of the effect.
StatusSubscribed_NoGuard(s) == TRUE

\* The effect of lines 138-182: which listeners a session holds.
StatusSubscribed(s) == userId[s] # Null /\ masterId(s) # Null

ChatSubscribed(s) ==
    /\ StatusSubscribed(s)
    /\ \/ userRole[s] = "master" /\ clientStatus[s].isLoggedIn
       \/ userRole[s] = "client"

ChatPathOf(s) ==
    getChatCollectionPath(IF masterId(s) # Null THEN masterId(s) ELSE userId[s],
                          HARDCODED_CLIENT_ID)

\* FormRendered without the test of isClientLoggedIn.
FormRendered_NoLoginTest(s) == userRole[s] # Null

\* The footer with the message form is rendered (line 475).
FormRendered(s) ==
    \/ userRole[s] # Null /\ clientStatus[s].isLoggedIn
    \/ userRole[s] = "master" /\ clientStatus[s].isLoggedIn

canClientSend(s) ==
    clientStatus[s].isLoggedIn /\ clientStatus[s].msgCount < MAX_MESSAGES_BEFORE_LOCK

\* ------------------------------------------------------------------- Init
\* The open chat room page after its mount: useState of messages, input and
\* user (part_000 lines 21-23), the sign-in under way, the collection 'chats'
\* empty, no add() awaiting the store.
RoomInit ==
    [user |-> Null, input |-> EmptyText, messages |-> << >>,
     signingIn |-> TRUE, chats |-> {}, pending |-> << >>]

\* M: the sessions whose page is open.  A session that is not opened behaves as
\* one whose authentication failed: no user, nothing loading.  n: how many
\* message timestamps remain before the horizon MaxClock.
InitWith(M, n) ==
    /\ statusDoc = Absent
    /\ chats = [p \in Paths |-> {}]
    /\ clock = MaxClock - n
    /\ userId = [s \in Sessions |-> Null]
    /\ userRole = [s \in Sessions |-> Null]
    /\ loading = [s \in Sessions |-> s \in M]
    /\ clientStatus = [s \in Sessions |-> DefaultStatus]
    /\ messages = [s \in Sessions |-> << >>]
    /\ newMessage = [s \in Sessions |-> EmptyText]
    /\ modal = [s \in Sessions |-> "closed"]
    /\ isTouching = [s \in Sessions |-> FALSE]
    /\ timers = [s \in Sessions |-> [i \in 1..MaxTimers |-> Off]]
    /\ touchTimerRef = [s \in Sessions |-> 0]
    /\ inflight = [s \in Sessions |-> << >>]
    /\ logoutBy = [s \in Sessions |-> Null]
    /\ room = RoomInit

Init == InitWith(Sessions, MaxClock)

\* --------------------------------------------------------- authentication
\* AuthSignedIn with the role resolved without the comparison of the identity.
AuthSignedIn_AlwaysMaster(s) ==
    /\ loading[s]
    /\ userId' = [userId EXCEPT ![s] = Uid(s)]
    /\ userRole' = [userRole EXCEPT ![s] = "master"]
    /\ loading' = [loading EXCEPT ![s] = FALSE]
    /\ UNCHANGED <<statusDoc, chats, clock, clientStatus, messages, newMessage,
                   modal, isTouching, timers, touchTimerRef, inflight, logoutBy>>
    /\ UNCHANGED room

\* authenticate() succeeded and onAuthStateChanged delivered the user.
AuthSignedIn(s) ==
    /\ loading[s]
    /\ userId' = [userId EXCEPT ![s] = Uid(s)]
    /\ userRole' = [userRole EXCEPT ![s] =
           IF Uid(s) = HARDCODED_CLIENT_ID THEN "client" ELSE "master"]
    /\ loading' = [loading EXCEPT ![s] = FALSE]
    /\ UNCHANGED <<statusDoc, chats, clock, clientStatus, messages, newMessage,
                   modal, isTouching, timers, touchTimerRef, inflight, logoutBy>>
    /\ UNCHANGED room

\* authenticate() failed: the error is logged, onAuthStateChanged delivers null.
AuthFailed(s) ==
    /\ loading[s]
    /\ userId' = [userId EXCEPT ![s] = Null]
    /\ userRole' = [userRole EXCEPT ![s] = Null]
    /\ loading' = [loading EXCEPT ![s] = FALSE]
    /\ UNCHANGED <<statusDoc, chats, clock, clientStatus, messages, newMessage,
                   modal, isTouching, timers, touchTimerRef, inflight, logoutBy>>
    /\ UNCHANGED room

\* ------------------------------------------------------- store listeners
\* docSnap.data() of an existing status document.
DocData(docv) ==
    [isLoggedIn |-> docv.isLoggedIn, msgCount |-> docv.msgCount,
     forceLogout |-> docv.forceLogout, lastLogin |-> docv.lastLogin]

StatusView == IF statusDoc.exists THEN DocData(statusDoc) ELSE DefaultStatus

\* The names imported from firebase/firestore (lines 4-19) do not include
\* getDocs, which deleteClientChatData calls first inside its try block.
getDocsImported == FALSE

\* deleteClientChatData(mId, cId, database): the store it leaves behind, as
\* <<statusDoc, chats>>.  Without getDocs the call throws a ReferenceError
\* inside the try block, the catch logs it and nothing is deleted.
deleteClientChatData(mId, cId) ==
    IF mId = Null \/ cId = Null THEN store
    ELSE IF ~getDocsImported THEN store
    ELSE <<Absent,
           [p \in Paths |-> IF p = getChatCollectionPath(mId, cId) THEN {} ELSE chats[p]]>>

\* handleLogout without the test of the identity, its deletion carried out.
handleLogout_DeletesForAll(s, uid, cause) ==
    /\ userId' = [userId EXCEPT ![s] = Null]
    /\ userRole' = [userRole EXCEPT ![s] = Null]
    /\ logoutBy' = [logoutBy EXCEPT ![s] = IF @ = Null THEN cause ELSE @]
    /\ statusDoc' = Absent
    /\ chats' = [p \in Paths |-> {}]

\* handleLogout: signOut (onAuthStateChanged then delivers null), the client's
\* data deletion, setUserId(null), setUserRole(null).  The callback closes over
\* the identity `uid` the session had when the callback was created.
handleLogout(s, uid, cause) ==
    /\ userId' = [userId EXCEPT ![s] = Null]
    /\ userRole' = [userRole EXCEPT ![s] = Null]
    /\ logoutBy' = [logoutBy EXCEPT ![s] = IF @ = Null THEN cause ELSE @]
    /\ IF uid = HARDCODED_CLIENT_ID
       THEN /\ statusDoc' = deleteClientChatData(uid, uid)[1]
            /\ chats' = deleteClientChatData(uid, uid)[2]
       ELSE UNCHANGED <<statusDoc, chats>>

\* onSnapshot(clientStatusDocRef) callback (lines 144-158).
DeliverStatus(s) ==
    /\ StatusSubscribed(s)
    /\ clientStatus[s] # StatusView
    /\ clientStatus' = [clientStatus EXCEPT ![s] = StatusView]
    /\ IF statusDoc.exists /\ userRole[s] = "client" /\ statusDoc.forceLogout
       THEN handleLogout(s, userId[s], "forced")
       ELSE UNCHANGED <<statusDoc, chats, userId, userRole, logoutBy>>
    /\ UNCHANGED <<clock, loading, messages, newMessage, modal, isTouching,
                   timers, touchTimerRef, inflight>>
    /\ UNCHANGED room

\* onSnapshot(q) callback of the chat listener (lines 168-170).
DeliverChat(s) ==
    /\ ChatSubscribed(s)
    /\ messages[s] # QuerySnapshot(ChatPathOf(s))
    /\ messages' = [messages EXCEPT ![s] = QuerySnapshot(ChatPathOf(s))]
    /\ UNCHANGED <<statusDoc, chats, clock, userId, userRole, loading,
                   clientStatus, newMessage, modal, isTouching, timers,
                   touchTimerRef, inflight, logoutBy>>
    /\ UNCHANGED room

\* ---------------------------------------------------------- login, logout
\* handleLogin, from the "Authenticate" button of the unauthenticated screen
\* or the "Master Login" button of the logged-out footer.  ok: the outcome
\* of batch.commit().
HandleLogin(s, ok) ==
    /\ ~loading[s]
    /\ userId[s] = Null \/ ~FormRendered(s)
    /\ IF userId[s] = Null
       THEN UNCHANGED <<statusDoc, chats, clock>>
       ELSE IF userRole[s] = "client"
       THEN /\ UNCHANGED clock
            /\ chats' = deleteClientChatData(masterId(s), userId[s])[2]
            /\ statusDoc' =
                 IF ok THEN [exists |-> TRUE, isLoggedIn |-> TRUE, msgCount |-> 0,
                             lastLogin |-> clock + 1, forceLogout |-> FALSE]
                 ELSE deleteClientChatData(masterId(s), userId[s])[1]
       ELSE UNCHANGED <<statusDoc, chats, clock>>
    /\ UNCHANGED <<userId, userRole, loading, clientStatus, messages, newMessage,
                   modal, isTouching, timers, touchTimerRef, inflight, logoutBy>>
    /\ UNCHANGED room

\* The header's Logout button (line 411).
ClickLogout(s) ==
    /\ ~loading[s]
    /\ userId[s] # Null
    /\ handleLogout(s, userId[s], "voluntary")
    /\ UNCHANGED <<clock, loading, clientStatus, messages, newMessage, modal,
                   isTouching, timers, touchTimerRef, inflight>>
    /\ UNCHANGED room

\* ------------------------------------------------------- message sending
\* onChange of the text input (line 498).
OnChange(s, t) ==
    /\ FormRendered(s)
    /\ newMessage[s] # t
    /\ newMessage' = [newMessage EXCEPT ![s] = t]
    /\ UNCHANGED <<statusDoc, chats, clock, userId, userRole, loading,
                   clientStatus, messages, modal, isTouching, timers,
                   touchTimerRef, inflight, logoutBy>>
    /\ UNCHANGED room

RemoveAt(q, i) == SubSeq(q, 1, i - 1) \o SubSeq(q, i + 1, Len(q))

\* SendBranch with the limit test written > instead of >=.
SendBranch_OffByOne(s) ==
    IF userId[s] = Null \/ trim(newMessage[s]) = EmptyText \/ masterId(s) = Null
    THEN "ignored"
    ELSE IF userRole[s] = "client"
            /\ clientStatus[s].msgCount > MAX_MESSAGES_BEFORE_LOCK
    THEN "limit"
    ELSE IF userRole[s] = "client" /\ toUpperCase(trim(newMessage[s])) = SPECIAL_CODE
    THEN "code"
    ELSE "normal"

\* SendBranch with the limit test applied whatever the role.
SendBranch_LimitForAll(s) ==
    IF userId[s] = Null \/ trim(newMessage[s]) = EmptyText \/ masterId(s) = Null
    THEN "ignored"
    ELSE IF clientStatus[s].msgCount >= MAX_MESSAGES_BEFORE_LOCK
    THEN "limit"
    ELSE IF userRole[s] = "client" /\ toUpperCase(trim(newMessage[s])) = SPECIAL_CODE
    THEN "code"
    ELSE "normal"

\* The branch handleSendMessage takes for the state it is called in
\* (lines 259-288).
SendBranch(s) ==
    IF userId[s] = Null \/ trim(newMessage[s]) = EmptyText \/ masterId(s) = Null
    THEN "ignored"
    ELSE IF userRole[s] = "client"
            /\ clientStatus[s].msgCount >= MAX_MESSAGES_BEFORE_LOCK
    THEN "limit"
    ELSE IF userRole[s] = "client" /\ toUpperCase(trim(newMessage[s])) = SPECIAL_CODE
    THEN "code"
    ELSE "normal"

\* The status data a client send writes with {merge: true}.
SendStatusData(s, count) == [clientStatus[s] EXCEPT !.msgCount = count]

\* handleSendMessage up to its first await (lines 257-307): the form's submit
\* handler.  The disabled attribute of the input and of the button does not
\* detach it, and the handler repeats the limit check itself.
HandleSendMessage(s) ==
    /\ FormRendered(s)
    /\ CASE SendBranch(s) = "ignored" ->
              UNCHANGED <<modal, inflight, clock>>
         [] SendBranch(s) = "limit" ->
              /\ modal' = [modal EXCEPT ![s] = "limit"]
              /\ UNCHANGED <<inflight, clock>>
         [] SendBranch(s) = "code" ->
              /\ Len(inflight[s]) < MaxInflight
              /\ inflight' = [inflight EXCEPT ![s] = Append(@,
                     [kind |-> "setDoc",
                      path |-> getChatCollectionPath(masterId(s), HARDCODED_CLIENT_ID),
                      text |-> EmptyText, senderId |-> userId[s], timestamp |-> 0,
                      status |-> SendStatusData(s, 0)])]
              /\ UNCHANGED <<modal, clock>>
         [] SendBranch(s) = "normal" ->
              /\ Len(inflight[s]) < MaxInflight
              /\ clock < MaxClock
              /\ clock' = clock + 1
              /\ inflight' = [inflight EXCEPT ![s] = Append(@,
                     [kind |-> "batch",
                      path |-> getChatCollectionPath(masterId(s), HARDCODED_CLIENT_ID),
                      text |-> trim(newMessage[s]), senderId |-> userId[s],
                      timestamp |-> clock + 1,
                      status |-> IF userRole[s] = "client"
                                 THEN SendStatusData(s, clientStatus[s].msgCount + 1)
                                 ELSE DefaultStatus])]
              /\ UNCHANGED modal
    /\ UNCHANGED <<statusDoc, chats, userId, userRole, loading, clientStatus,
                   messages, newMessage, isTouching, timers, touchTimerRef,
                   logoutBy>>
    /\ UNCHANGED room

MessageOf(w) == [text |-> w.text, senderId |-> w.senderId, timestamp |-> w.timestamp]

\* BatchSettled with a commit that is not atomic: a rejected commit has
\* already inserted the message.
BatchSettled_Partial(s, i, ok) ==
    /\ i \in 1..Len(inflight[s])
    /\ inflight[s][i].kind = "batch"
    /\ inflight' = [inflight EXCEPT ![s] = RemoveAt(@, i)]
    /\ chats' = [chats EXCEPT ![inflight[s][i].path] =
                    @ \cup {MessageOf(inflight[s][i])}]
    /\ IF ok
       THEN /\ statusDoc' = IF inflight[s][i].senderId = HARDCODED_CLIENT_ID
                            THEN MergeSet(statusDoc, inflight[s][i].status)
                            ELSE statusDoc
            /\ newMessage' = [newMessage EXCEPT ![s] = EmptyText]
            /\ UNCHANGED modal
       ELSE /\ modal' = [modal EXCEPT ![s] = "error"]
            /\ UNCHANGED <<statusDoc, newMessage>>
    /\ UNCHANGED <<clock, userId, userRole, loading, clientStatus, messages,
                   isTouching, timers, touchTimerRef, logoutBy>>
    /\ UNCHANGED room

\* batch.commit() of a normal send settles (lines 306-311).
BatchSettled(s, i, ok) ==
    /\ i \in 1..Len(inflight[s])
    /\ inflight[s][i].kind = "batch"
    /\ inflight' = [inflight EXCEPT ![s] = RemoveAt(@, i)]
    /\ IF ok
       THEN /\ chats' = [chats EXCEPT ![inflight[s][i].path] =
                            @ \cup {MessageOf(inflight[s][i])}]
            /\ statusDoc' = IF inflight[s][i].senderId = HARDCODED_CLIENT_ID
                            THEN MergeSet(statusDoc, inflight[s][i].status)
                            ELSE statusDoc
            /\ newMessage' = [newMessage EXCEPT ![s] = EmptyText]
            /\ UNCHANGED modal
       ELSE /\ modal' = [modal EXCEPT ![s] = "error"]
            /\ UNCHANGED <<chats, statusDoc, newMessage>>
    /\ UNCHANGED <<clock, userId, userRole, loading, clientStatus, messages,
                   isTouching, timers, touchTimerRef, logoutBy>>
    /\ UNCHANGED room

\* setDoc of the special-code branch settles (lines 279-285); on success the
\* handler clears the input and issues addDoc of the SYSTEM notice.
SetDocSettled(s, i, ok) ==
    /\ i \in 1..Len(inflight[s])
    /\ inflight[s][i].kind = "setDoc"
    /\ IF ok
       THEN /\ clock < MaxClock
            /\ clock' = clock + 1
            /\ statusDoc' = MergeSet(statusDoc, inflight[s][i].status)
            /\ newMessage' = [newMessage EXCEPT ![s] = EmptyText]
            /\ inflight' = [inflight EXCEPT ![s][i] =
                   [@ EXCEPT !.kind = "addDoc", !.text = SystemText,
                             !.senderId = "SYSTEM", !.timestamp = clock + 1]]
       ELSE /\ inflight' = [inflight EXCEPT ![s] = RemoveAt(@, i)]
            /\ UNCHANGED <<clock, statusDoc, newMessage>>
    /\ UNCHANGED <<chats, userId, userRole, loading, clientStatus, messages,
                   modal, isTouching, timers, touchTimerRef, logoutBy>>
    /\ UNCHANGED room

\* AddDocSettled writing the notice into the documents already there.
AddDocSettled_Overwrite(s, i, ok) ==
    /\ i \in 1..Len(inflight[s])
    /\ inflight[s][i].kind = "addDoc"
    /\ inflight' = [inflight EXCEPT ![s] = RemoveAt(@, i)]
    /\ chats' = IF ok
                THEN [chats EXCEPT ![inflight[s][i].path] =
                         {[m EXCEPT !.text = SystemText] : m \in @}
                             \cup {MessageOf(inflight[s][i])}]
                ELSE chats
    /\ UNCHANGED <<statusDoc, clock, userId, userRole, loading, clientStatus,
                   messages, newMessage, modal, isTouching, timers,
                   touchTimerRef, logoutBy>>
    /\ UNCHANGED room

\* addDoc of the SYSTEM notice settles (lines 281-286).
AddDocSettled(s, i, ok) ==
    /\ i \in 1..Len(inflight[s])
    /\ inflight[s][i].kind = "addDoc"
    /\ inflight' = [inflight EXCEPT ![s] = RemoveAt(@, i)]
    /\ chats' = IF ok
                THEN [chats EXCEPT ![inflight[s][i].path] =
                         @ \cup {MessageOf(inflight[s][i])}]
                ELSE chats
    /\ UNCHANGED <<statusDoc, clock, userId, userRole, loading, clientStatus,
                   messages, newMessage, modal, isTouching, timers,
                   touchTimerRef, logoutBy>>
    /\ UNCHANGED room

\* ----------------------------------------------------------- hold button
TouchButtonRendered(s) == FormRendered(s) /\ userRole[s] = "client"

FreeTimers(s) == {i \in 1..MaxTimers : timers[s][i] = Off}

\* onTouchStart / onMouseDown (lines 316-324).
HandleTouchStart(s) ==
    /\ TouchButtonRendered(s)
    /\ userRole[s] = "client"
    /\ FreeTimers(s) # {}
    /\ LET id == CHOOSE i \in FreeTimers(s) : \A j \in FreeTimers(s) : i <= j
       IN  /\ timers' = [timers EXCEPT ![s][id] = Armed]
           /\ touchTimerRef' = [touchTimerRef EXCEPT ![s] = id]
    /\ isTouching' = [isTouching EXCEPT ![s] = TRUE]
    /\ UNCHANGED <<statusDoc, chats, clock, userId, userRole, loading,
                   clientStatus, messages, newMessage, modal, inflight, logoutBy>>
    /\ UNCHANGED room

\* onTouchEnd / onMouseUp (lines 327-331).
HandleTouchEnd(s) ==
    /\ TouchButtonRendered(s)
    /\ userRole[s] = "client"
    /\ timers' = IF touchTimerRef[s] = 0 THEN timers
                 ELSE [timers EXCEPT ![s][touchTimerRef[s]] = Off]
    /\ isTouching' = [isTouching EXCEPT ![s] = FALSE]
    /\ UNCHANGED <<statusDoc, chats, clock, userId, userRole, loading,
                   clientStatus, messages, newMessage, modal, touchTimerRef,
                   inflight, logoutBy>>
    /\ UNCHANGED room

\* The setTimeout callback (lines 320-323), run when 3000 ms have passed since
\* timer i was armed and it was not cleared: handleLogout of the render that
\* armed it, a client's.
TimerFired(s, i) ==
    /\ timers[s][i] = Armed
    /\ timers' = [timers EXCEPT ![s][i] = Off]
    /\ handleLogout(s, HARDCODED_CLIENT_ID, "timer")
    /\ UNCHANGED <<clock, loading, clientStatus, messages, newMessage, modal,
                   isTouching, touchTimerRef, inflight>>
    /\ UNCHANGED room

\* ------------------------------------------------------------ master, modal
\* HandleMasterForceLogout without the test of the role at its entry.
HandleMasterForceLogout_AnyRole(s, ok) ==
    /\ userRole[s] # Null
    /\ clientStatus[s].isLoggedIn
    /\ IF ok /\ statusDoc.exists
       THEN /\ statusDoc' = [statusDoc EXCEPT !.forceLogout = TRUE]
            /\ modal' = [modal EXCEPT ![s] = "forceLogout"]
       ELSE /\ modal' = [modal EXCEPT ![s] = "error"]
            /\ UNCHANGED statusDoc
    /\ UNCHANGED <<chats, clock, userId, userRole, loading, clientStatus,
                   messages, newMessage, isTouching, timers, touchTimerRef,
                   inflight, logoutBy>>
    /\ UNCHANGED room

\* HandleMasterForceLogout writing the flag with setDoc and merge, which
\* creates a missing document.
HandleMasterForceLogout_Creates(s, ok) ==
    /\ userRole[s] = "master"
    /\ clientStatus[s].isLoggedIn
    /\ IF ok
       THEN /\ statusDoc' = [statusDoc EXCEPT !.exists = TRUE, !.forceLogout = TRUE]
            /\ modal' = [modal EXCEPT ![s] = "forceLogout"]
       ELSE /\ modal' = [modal EXCEPT ![s] = "error"]
            /\ UNCHANGED statusDoc
    /\ UNCHANGED <<chats, clock, userId, userRole, loading, clientStatus,
                   messages, newMessage, isTouching, timers, touchTimerRef,
                   inflight, logoutBy>>
    /\ UNCHANGED room

\* handleMasterForceLogout (lines 334-348), from the button rendered for a
\* master while it sees the client logged in.  ok: whether the store accepts
\* the update; updateDoc of a missing document fails.
HandleMasterForceLogout(s, ok) ==
    /\ userRole[s] = "master"
    /\ clientStatus[s].isLoggedIn
    /\ IF ok /\ statusDoc.exists
       THEN /\ statusDoc' = [statusDoc EXCEPT !.forceLogout = TRUE]
            /\ modal' = [modal EXCEPT ![s] = "forceLogout"]
       ELSE /\ modal' = [modal EXCEPT ![s] = "error"]
            /\ UNCHANGED statusDoc
    /\ UNCHANGED <<chats, clock, userId, userRole, loading, clientStatus,
                   messages, newMessage, isTouching, timers, touchTimerRef,
                   inflight, logoutBy>>
    /\ UNCHANGED room

\* The dialog's Close button (line 386).
CloseModal(s) ==
    /\ modal[s] # "closed"
    /\ modal' = [modal EXCEPT ![s] = "closed"]
    /\ UNCHANGED <<statusDoc, chats, clock, userId, userRole, loading,
                   clientStatus, messages, newMessage, isTouching, timers,
                   touchTimerRef, inflight, logoutBy>>
    /\ UNCHANGED room

\* --------------------------------------------- open chat room (part_000)
\* The identity the auth service gives the anonymous user of the room page.
RoomUid == "guest_1"

\* Texts typed into the room's input.
RoomInputs == {EmptyText, Blank, Hi, CodeTyped}

\* db.collection('chats').orderBy('timestamp', 'asc')
RECURSIVE orderByTimestamp(_)
orderByTimestamp(S) ==
    IF S = {} THEN << >>
    ELSE LET m == CHOOSE x \in S : \A y \in S : x.timestamp <= y.timestamp
         IN  <<m>> \o orderByTimestamp(S \ {m})

\* signInAnonymously() succeeded and onAuthStateChanged delivered the user
\* (part_000 lines 34-37).
RoomSignedIn ==
    /\ room.signingIn
    /\ room' = [room EXCEPT !.user = RoomUid, !.signingIn = FALSE]
    /\ UNCHANGED appVars

\* signInAnonymously() failed: the catch logs the error (lines 40-42).
RoomSignInFailed ==
    /\ room.signingIn
    /\ room' = [room EXCEPT !.signingIn = FALSE]
    /\ UNCHANGED appVars

\* onChange of the room's input (line 136).
setInput(t) ==
    /\ room.input # t
    /\ room' = [room EXCEPT !.input = t]
    /\ UNCHANGED appVars

\* sendMessage without the test at its head.
sendMessage_NoGuard ==
    /\ Len(room.pending) < MaxInflight
    /\ Cardinality(room.chats) + Len(room.pending) < MaxRoomSends
    /\ room' = [room EXCEPT !.pending =
                    Append(@, [text |-> room.input, uid |-> room.user])]
    /\ UNCHANGED appVars

\* sendMessage up to its await (lines 73-83): the add() carries the input as
\* typed, not trimmed, and the uid; displayName, derived from the uid, is left
\* out of the document.
sendMessage ==
    /\ IF trim(room.input) = EmptyText \/ room.user = Null
       THEN UNCHANGED room
       ELSE /\ Len(room.pending) < MaxInflight
            /\ Cardinality(room.chats) + Len(room.pending) < MaxRoomSends
            /\ room' = [room EXCEPT !.pending =
                            Append(@, [text |-> room.input, uid |-> room.user])]
    /\ UNCHANGED appVars

\* The add() settles (lines 78-87): the server stamps the document; on
\* success setInput(''), on failure console.error.
AddSettled(i, ok) ==
    /\ i \in 1..Len(room.pending)
    /\ room' = IF ok
               THEN [room EXCEPT
                       !.pending = RemoveAt(@, i),
                       !.input = EmptyText,
                       !.chats = @ \cup {[text |-> room.pending[i].text,
                                          uid |-> room.pending[i].uid,
                                          timestamp |-> Cardinality(room.chats) + 1]}]
               ELSE [room EXCEPT !.pending = RemoveAt(@, i)]
    /\ UNCHANGED appVars

\* The onSnapshot callback of the room's listener, opened by the effect once
\* user is set (lines 49-66).
RoomSnapshot ==
    /\ room.user # Null
    /\ room.messages # orderByTimestamp(room.chats)
    /\ room' = [room EXCEPT !.messages = orderByTimestamp(room.chats)]
    /\ UNCHANGED appVars

AuthStep(s) == AuthSignedIn(s) \/ AuthFailed(s)

ListenerStep(s) == DeliverStatus(s) \/ DeliverChat(s)

SessionStep(s) == (\E ok \in BOOLEAN : HandleLogin(s, ok)) \/ ClickLogout(s)

ChatStep(s) ==
    \/ \E t \in Inputs(s) : OnChange(s, t)
    \/ HandleSendMessage(s)
    \/ \E i \in 1..MaxInflight, ok \in BOOLEAN : BatchSettled(s, i, ok)
    \/ \E i \in 1..MaxInflight, ok \in BOOLEAN : SetDocSettled(s, i, ok)
    \/ \E i \in 1..MaxInflight, ok \in BOOLEAN : AddDocSettled(s, i, ok)

TouchStep(s) ==
    \/ HandleTouchStart(s)
    \/ HandleTouchEnd(s)
    \/ \E i \in 1..MaxTimers : TimerFired(s, i)

MasterStep(s) == \E ok \in BOOLEAN : HandleMasterForceLogout(s, ok)

Next ==
    \E s \in Sessions :
        \/ AuthStep(s)
        \/ ListenerStep(s)
        \/ SessionStep(s)
        \/ ChatStep(s)
        \/ TouchStep(s)
        \/ MasterStep(s)
        \/ CloseModal(s)

\* The whole system: every session opened, every event possible.
Spec == Init /\ [][Next]_vars

\* One client and one master, the pair of a conversation.
NextPair ==
    \E s \in Sessions :
        \/ AuthStep(s)
        \/ ListenerStep(s)
        \/ SessionStep(s)
        \/ ChatStep(s)
        \/ MasterStep(s)

SpecPair == InitWith({"c1", "m1"}, PairSends) /\ [][NextPair]_vars

\* The client alone, sending: its status listener, login, logout and sends.
NextChat ==
    \E s \in Sessions :
        \/ AuthStep(s)
        \/ DeliverStatus(s)
        \/ SessionStep(s)
        \/ ChatStep(s)

SpecChat == InitWith({"c1"}, MaxClock) /\ [][NextChat]_vars

\* The client alone, with its hold button and its dialogs as well.
NextClient ==
    \E s \in Sessions :
        \/ AuthStep(s)
        \/ ListenerStep(s)
        \/ SessionStep(s)
        \/ ChatStep(s)
        \/ TouchStep(s)
        \/ CloseModal(s)

SpecClient == InitWith({"c1"}, MaxClock) /\ [][NextClient]_vars

\* Two tabs signed in as the client, typing ordinary texts, every commit
\* accepted: the race on the status document.
NextTabs ==
    \E s \in Sessions :
        \/ AuthSignedIn(s)
        \/ DeliverStatus(s)
        \/ HandleLogin(s, TRUE)
        \/ OnChange(s, Hi)
        \/ HandleSendMessage(s)
        \/ \E i \in 1..MaxInflight : BatchSettled(s, i, TRUE)

SpecTabs == InitWith({"c1", "c2"}, MaxClock) /\ [][NextTabs]_vars

\* A client and a master that sign in or fail to, log in, type, force a
\* logout and log out, without sending.
NextSessions ==
    \E s \in Sessions :
        \/ AuthStep(s)
        \/ DeliverStatus(s)
        \/ SessionStep(s)
        \/ \E t \in Inputs(s) : OnChange(s, t)
        \/ MasterStep(s)
        \/ CloseModal(s)

SpecSessions == InitWith({"c1", "m1"}, MaxClock) /\ [][NextSessions]_vars

\* A client and a master talking, every commit accepted: the client types
\* ordinary texts, the master types the special code.
NextTalk ==
    \E s \in Sessions :
        \/ AuthSignedIn(s)
        \/ DeliverStatus(s)
        \/ HandleLogin(s, TRUE)
        \/ OnChange(s, IF Uid(s) = HARDCODED_CLIENT_ID THEN Hi ELSE CodeTyped)
        \/ HandleSendMessage(s)
        \/ \E i \in 1..MaxInflight : BatchSettled(s, i, TRUE)

SpecTalk == InitWith({"c1", "m1"}, MaxClock) /\ [][NextTalk]_vars

\* A master that still holds a snapshot of a logged-in client after the status
\* document was removed from the store by something other than these pages
\* (nothing in them deletes it, see getDocsImported); a client page is loading.
InitStale ==
    /\ statusDoc = Absent
    /\ chats = [p \in Paths |-> {}]
    /\ clock = MaxClock - PairSends
    /\ userId = [s \in Sessions |-> IF s = "m1" THEN Uid(s) ELSE Null]
    /\ userRole = [s \in Sessions |-> IF s = "m1" THEN "master" ELSE Null]
    /\ loading = [s \in Sessions |-> s = "c1"]
    /\ \E n \in 0..MAX_MESSAGES_BEFORE_LOCK :
           clientStatus = [s \in Sessions |->
               IF s = "m1"
               THEN [isLoggedIn |-> TRUE, msgCount |-> n, forceLogout |-> FALSE,
                     lastLogin |-> clock]
               ELSE DefaultStatus]
    /\ messages = [s \in Sessions |-> << >>]
    /\ newMessage = [s \in Sessions |-> EmptyText]
    /\ modal = [s \in Sessions |-> "closed"]
    /\ isTouching = [s \in Sessions |-> FALSE]
    /\ timers = [s \in Sessions |-> [i \in 1..MaxTimers |-> Off]]
    /\ touchTimerRef = [s \in Sessions |-> 0]
    /\ inflight = [s \in Sessions |-> << >>]
    /\ logoutBy = [s \in Sessions |-> Null]
    /\ room = RoomInit

NextStale ==
    \E s \in Sessions :
        \/ AuthStep(s)
        \/ DeliverStatus(s)
        \/ SessionStep(s)
        \/ \E t \in Inputs(s) : OnChange(s, t)
        \/ MasterStep(s)
        \/ CloseModal(s)

SpecStale == InitStale /\ [][NextStale]_vars

\* The open chat room page alone.
NextRoom ==
    \/ RoomSignedIn
    \/ RoomSignInFailed
    \/ \E t \in RoomInputs : setInput(t)
    \/ sendMessage
    \/ \E i \in 1..MaxInflight, ok \in BOOLEAN : AddSettled(i, ok)
    \/ RoomSnapshot

SpecRoom == InitWith({}, 0) /\ [][NextRoom]_vars

\* The listeners deliver every change and every issued write settles.
Fairness ==
    \A s \in Sessions :
        /\ WF_vars(DeliverStatus(s))
        /\ WF_vars(DeliverChat(s))
        /\ \A i \in 1..MaxInflight :
               /\ WF_vars(\E ok \in BOOLEAN : BatchSettled(s, i, ok))
               /\ WF_vars(\E ok \in BOOLEAN : SetDocSettled(s, i, ok))
               /\ WF_vars(\E ok \in BOOLEAN : AddDocSettled(s, i, ok))

FairPair == SpecPair /\ Fairness

\* ------------------------------------------------------------------ claims
ClientPath == getChatCollectionPath(HARDCODED_CLIENT_ID, HARDCODED_CLIENT_ID)

IsCode(t) == toUpperCase(trim(t)) = SPECIAL_CODE

\* C1: a send of a text other than the special code by a client session whose
\* clientStatus has msgCount = MAX_MESSAGES_BEFORE_LOCK is rejected: the step
\* issues no write, adds no message and leaves the status document alone.
C1_LockedSendRejected ==
    [][\A s \in Sessions :
          ( /\ userRole[s] = "client"
            /\ clientStatus[s].msgCount = MAX_MESSAGES_BEFORE_LOCK
            /\ ~IsCode(newMessage[s])
            /\ HandleSendMessage(s) )
          => UNCHANGED <<statusDoc, chats, inflight>>]_vars

\* A locked client typed an ordinary text, submitted it and got the limit dialog.
C1_Witness ==
    \E s \in Sessions :
        /\ userRole[s] = "client"
        /\ clientStatus[s].msgCount = MAX_MESSAGES_BEFORE_LOCK
        /\ trim(newMessage[s]) = Hi
        /\ modal[s] = "limit"
        /\ inflight[s] = << >>

\* C2: a client that submits the special code (any case, blanks around it)
\* always has the reset of msgCount to 0 issued, whatever msgCount it holds.
C2_CodeAlwaysResets ==
    [][\A s \in Sessions :
          ( /\ userRole[s] = "client"
            /\ IsCode(newMessage[s])
            /\ HandleSendMessage(s) )
          => /\ Len(inflight'[s]) = Len(inflight[s]) + 1
             /\ inflight'[s][Len(inflight'[s])].kind = "setDoc"
             /\ inflight'[s][Len(inflight'[s])].status.msgCount = 0]_vars

\* C3: the commit of a normal client send raises the stored msgCount by
\* exactly 1 over its stored value and adds exactly one message document.
C3_SendIncrementsByOne ==
    [][\A s \in Sessions : \A i \in 1..MaxInflight :
          ( /\ BatchSettled(s, i, TRUE)
            /\ inflight[s][i].senderId = HARDCODED_CLIENT_ID )
          => /\ statusDoc'.msgCount = statusDoc.msgCount + 1
             /\ Cardinality(chats'[inflight[s][i].path])
                  = Cardinality(chats[inflight[s][i].path]) + 1]_vars

\* C4: once forceLogout is true in the status document while a client session
\* that sees itself logged in listens to it, that session eventually is signed
\* out, userId and userRole null.
C4_ForcedLogoutObserved ==
    \A s \in Sessions :
        (statusDoc.exists /\ statusDoc.forceLogout
            /\ userRole[s] = "client" /\ StatusSubscribed(s)
            /\ clientStatus[s].isLoggedIn)
        ~> (userId[s] = Null /\ userRole[s] = Null)

\* C5: the step that completes a client session's logout leaves no message in
\* the client's conversation and no status document in the store.
C5_LogoutDeletesData ==
    [][\A s \in Sessions :
          (Uid(s) = HARDCODED_CLIENT_ID /\ logoutBy[s] = Null /\ logoutBy'[s] # Null)
          => (~statusDoc'.exists /\ chats'[ClientPath] = {})]_vars

\* C6: no write of a client session lands in the store after the session
\* signed out on a forced logout, a write in flight included.
C6_NoWriteAfterForcedLogout ==
    [][\A s \in Sessions : \A i \in 1..MaxInflight :
          ( /\ logoutBy[s] = "forced"
            /\ \/ BatchSettled(s, i, TRUE)
               \/ SetDocSettled(s, i, TRUE)
               \/ AddDocSettled(s, i, TRUE) )
          => UNCHANGED <<statusDoc, chats>>]_vars

\* C7: a message a session sends goes to the conversation path every session
\* of the other role listens to.
C7_WrittenWhereSubscribed ==
    \A s \in Sessions : \A i \in 1..Len(inflight[s]) :
        \A o \in Sessions :
            (inflight[s][i].kind = "batch" /\ userRole[s] # Null
                /\ userRole[o] # Null /\ userRole[o] # userRole[s] /\ ChatSubscribed(o))
            => inflight[s][i].path = ChatPathOf(o)

\* C8: a release of the hold button leaves no auto-logout timer pending.
C8_ReleaseCancelsTimer ==
    [][\A s \in Sessions :
          HandleTouchEnd(s) => \A i \in 1..MaxTimers : timers'[s][i] = Off]_vars

\* C9: the auto-logout timer never runs while the button is held.
C9_NoLogoutWhileHeld ==
    [][\A s \in Sessions : \A i \in 1..MaxTimers :
          TimerFired(s, i) => ~isTouching[s]]_vars

\* C10: a client session issues a send only while its clientStatus has
\* isLoggedIn and msgCount < MAX_MESSAGES_BEFORE_LOCK, and a message of the
\* client is written only while the status document exists with isLoggedIn.
C10_ClientSendsOnlyLoggedIn ==
    [][/\ \A s \in Sessions :
            (userRole[s] = "client" /\ Len(inflight'[s]) > Len(inflight[s]))
            => canClientSend(s)
       /\ \A p \in Paths : \A m \in chats'[p] \ chats[p] :
            m.senderId = HARDCODED_CLIENT_ID
            => (statusDoc.exists /\ statusDoc.isLoggedIn)]_vars

\* A message of the client is in the store.
C10_Witness ==
    \E m \in chats[ClientPath] :
        /\ m.senderId = HARDCODED_CLIENT_ID
        /\ statusDoc.exists /\ statusDoc.isLoggedIn

\* C11: the step in which a client's handleLogin completes with its commit
\* accepted leaves the status document existing with isLoggedIn = TRUE,
\* msgCount = 0, forceLogout = FALSE, and no message in the client's
\* conversation.
C11_LoginResets ==
    [][\A s \in Sessions :
          (userRole[s] = "client" /\ HandleLogin(s, TRUE))
          => /\ statusDoc'.exists /\ statusDoc'.isLoggedIn
             /\ statusDoc'.msgCount = 0 /\ ~statusDoc'.forceLogout
             /\ chats'[ClientPath] = {}]_vars

\* C12: every store write of a send or of the master's force logout that the
\* store rejects opens the error dialog of the session that issued it, and the
\* write is dropped, not issued again.
C12_FailedWriteOpensDialog ==
    [][\A s \in Sessions :
          /\ \A i \in 1..MaxInflight :
                ( \/ BatchSettled(s, i, FALSE)
                  \/ SetDocSettled(s, i, FALSE)
                  \/ AddDocSettled(s, i, FALSE) )
                => /\ modal'[s] = "error"
                   /\ Len(inflight'[s]) = Len(inflight[s]) - 1
          /\ HandleMasterForceLogout(s, FALSE) => modal'[s] = "error"]_vars

ClientMessages(S) == {m \in S : m.senderId = HARDCODED_CLIENT_ID}

\* C13: the message insert and the msgCount write of a normal client send land
\* in one step or not at all: an accepted commit puts both in the store, a
\* rejected one leaves the store and the typed input as they were, and no step
\* raises msgCount without a client message or adds a client message without
\* the msgCount it was committed with.
C13_BatchAllOrNothing ==
    [][/\ \A s \in Sessions : \A i \in 1..MaxInflight :
            /\ (BatchSettled(s, i, TRUE)
                    /\ inflight[s][i].senderId = HARDCODED_CLIENT_ID)
               => /\ MessageOf(inflight[s][i]) \in chats'[inflight[s][i].path]
                  /\ statusDoc'.exists
                  /\ statusDoc'.msgCount = inflight[s][i].status.msgCount
            /\ BatchSettled(s, i, FALSE)
               => UNCHANGED <<statusDoc, chats, newMessage>>
       /\ statusDoc'.msgCount > statusDoc.msgCount
          => \E p \in Paths : ClientMessages(chats'[p] \ chats[p]) # {}
       /\ (\E p \in Paths : ClientMessages(chats'[p] \ chats[p]) # {})
          => statusDoc'.exists /\ statusDoc'.msgCount >= 1]_vars

\* One send of the client was committed, a later one was rejected: the first
\* message and its count are stored, the rejected text is still typed.
C13_Witness ==
    \E s \in Sessions :
        /\ userRole[s] = "client"
        /\ modal[s] = "error"
        /\ newMessage[s] = Hi
        /\ inflight[s] = << >>
        /\ Cardinality(ClientMessages(chats[ClientPath])) = 1
        /\ statusDoc.msgCount = 1

\* C14: a session with a userId has the role "client" if that identity is
\* HARDCODED_CLIENT_ID and "master" otherwise; a session without a userId has
\* no role, and a session without a role has no userId.
C14_RoleResolved ==
    \A s \in Sessions :
        /\ userId[s] = Null <=> userRole[s] = Null
        /\ userId[s] # Null =>
               userRole[s] = IF userId[s] = HARDCODED_CLIENT_ID
                             THEN "client" ELSE "master"

\* A client and a master are signed in, each with its role.
C14_Witness ==
    \E s, o \in Sessions :
        /\ userId[s] = HARDCODED_CLIENT_ID /\ userRole[s] = "client"
        /\ userId[o] \notin {Null, HARDCODED_CLIENT_ID} /\ userRole[o] = "master"

\* C15: a step that raises forceLogout in the status document is the
\* handleMasterForceLogout of a session whose role is master; that handler
\* changes no message and, of the status document, nothing but forceLogout,
\* which it sets when the store accepts the update.
C15_OnlyMasterRaisesFlag ==
    [][/\ (statusDoc'.forceLogout /\ ~statusDoc.forceLogout)
          => \E s \in Sessions :
                 userRole[s] = "master" /\ HandleMasterForceLogout(s, TRUE)
       /\ \A s \in Sessions : \A ok \in BOOLEAN :
            HandleMasterForceLogout(s, ok)
            => /\ userRole[s] = "master"
               /\ chats' = chats
               /\ statusDoc'.exists = statusDoc.exists
               /\ statusDoc'.isLoggedIn = statusDoc.isLoggedIn
               /\ statusDoc'.msgCount = statusDoc.msgCount
               /\ statusDoc'.lastLogin = statusDoc.lastLogin
               /\ (ok /\ statusDoc.exists) => statusDoc'.forceLogout]_vars

\* A master raised the flag on the status of a client that had sent a message.
C15_Witness ==
    \E s \in Sessions :
        /\ userRole[s] = "master"
        /\ modal[s] = "forceLogout"
        /\ statusDoc.exists /\ statusDoc.forceLogout /\ statusDoc.isLoggedIn
        /\ statusDoc.msgCount = 1
        /\ chats[ClientPath] # {}

\* The page of s finished loading without a user and s never logged out:
\* its sign-in failed.
SignInFailed(s) == ~loading[s] /\ userId[s] = Null /\ logoutBy[s] = Null

\* C16: a session whose sign-in failed has no user and no role, holds no
\* listener of the store and no write in flight, and stays so in every step:
\* nothing of its state changes, and its one handler that can run,
\* handleLogin, leaves the store as it is.
C16_FailedSignInStaysOut ==
    [][\A s \in Sessions :
          SignInFailed(s)
          => /\ userRole[s] = Null
             /\ ~StatusSubscribed(s) /\ ~ChatSubscribed(s)
             /\ inflight[s] = << >>
             /\ SignInFailed(s)' /\ userRole'[s] = Null /\ inflight'[s] = << >>
             /\ clientStatus'[s] = clientStatus[s] /\ messages'[s] = messages[s]
             /\ newMessage'[s] = newMessage[s] /\ modal'[s] = modal[s]
             /\ timers'[s] = timers[s]
             /\ \A ok \in BOOLEAN :
                    HandleLogin(s, ok) => UNCHANGED <<statusDoc, chats>>]_vars

\* The sign-in of every client tab failed while a master is signed in and
\* sees the status document absent.
C16_Witness ==
    /\ \A s \in Sessions : Uid(s) = HARDCODED_CLIENT_ID => SignInFailed(s)
    /\ \E o \in Sessions : userRole[o] = "master" /\ StatusSubscribed(o)
    /\ ~statusDoc.exists

\* C17: a message document, known by the timestamp it was written with, keeps
\* its text and its senderId in every step it survives, and a step that changes
\* a conversation only inserts documents or only deletes documents.
C17_MessagesImmutable ==
    [][\A p \in Paths :
          /\ \A m \in chats[p] : \A n \in chats'[p] :
                m.timestamp = n.timestamp
                => (m.text = n.text /\ m.senderId = n.senderId)
          /\ chats[p] \subseteq chats'[p] \/ chats'[p] \subseteq chats[p]]_vars

\* The SYSTEM notice was inserted into a conversation that held a message of
\* the client, which is still there as it was sent.
C17_Witness ==
    \E m, n \in chats[ClientPath] :
        /\ m.senderId = HARDCODED_CLIENT_ID /\ m.text = Hi
        /\ n.senderId = "SYSTEM" /\ n.text = SystemText
        /\ m.timestamp < n.timestamp

\* The times of the counter resets the store shows: the last login, and the
\* SYSTEM notices of accepted special codes, written or on their way.
ResetMarks ==
    {statusDoc.lastLogin}
        \cup {m.timestamp : m \in {x \in chats[ClientPath] : x.senderId = "SYSTEM"}}
        \cup {w.timestamp : w \in {x \in UNION {{inflight[s][i] : i \in 1..Len(inflight[s])} :
                                                   s \in Sessions} : x.kind = "addDoc"}}

LastReset == CHOOSE t \in ResetMarks : \A u \in ResetMarks : u <= t

\* The normal client messages sent since the last reset: those in the
\* conversation, and those of batches not yet settled.
StoredSinceReset ==
    {m \in ClientMessages(chats[ClientPath]) : m.timestamp >= LastReset}

PendingSinceReset ==
    {w \in UNION {{inflight[s][i] : i \in 1..Len(inflight[s])} : s \in Sessions} :
        /\ w.kind = "batch" /\ w.senderId = HARDCODED_CLIENT_ID
        /\ w.timestamp >= LastReset}

\* C18: between two resets of the counter at most MAX_MESSAGES_BEFORE_LOCK
\* normal client messages are sent, with several tabs signed in as the client
\* as well: while the stored msgCount is the number of client messages stored
\* since the last reset and every client tab's copy of the status is the
\* stored one, a send never brings the messages of the client since the last
\* reset, stored or about to be, above the limit.
C18_AtMostMaxBetweenResets ==
    [][\A s \in Sessions :
          ( /\ userRole[s] = "client"
            /\ statusDoc.msgCount = Cardinality(StoredSinceReset)
            /\ \A o \in Sessions :
                   userRole[o] = "client" => clientStatus[o] = StatusView
            /\ HandleSendMessage(s)
            /\ Len(inflight'[s]) > Len(inflight[s]) )
          => Cardinality(StoredSinceReset') + Cardinality(PendingSinceReset')
                 <= MAX_MESSAGES_BEFORE_LOCK]_vars

\* C19: the commit of a client send, normal or special code, changes nothing
\* of the stored status but msgCount: isLoggedIn and forceLogout stay as the
\* store has them.
C19_SendWritesOnlyCount ==
    [][\A s \in Sessions : \A i \in 1..MaxInflight :
          ( /\ BatchSettled(s, i, TRUE) \/ SetDocSettled(s, i, TRUE)
            /\ inflight[s][i].senderId = HARDCODED_CLIENT_ID )
          => /\ statusDoc'.isLoggedIn = statusDoc.isLoggedIn
             /\ statusDoc'.forceLogout = statusDoc.forceLogout]_vars

\* C20: the msgCount of the status document and of every session's copy of
\* it is an integer from 0 to MAX_MESSAGES_BEFORE_LOCK.
C20_CountInRange ==
    /\ statusDoc.msgCount \in 0..MAX_MESSAGES_BEFORE_LOCK
    /\ \A s \in Sessions : clientStatus[s].msgCount \in 0..MAX_MESSAGES_BEFORE_LOCK

\* The counter reached the limit in the store and in a client tab's copy.
C20_Witness ==
    /\ statusDoc.exists /\ statusDoc.msgCount = MAX_MESSAGES_BEFORE_LOCK
    /\ \E s \in Sessions :
           /\ userRole[s] = "client"
           /\ clientStatus[s].msgCount = MAX_MESSAGES_BEFORE_LOCK

\* C21: a logout of a session whose identity is not the client's, by its
\* Logout button, changes neither the status document nor any conversation.
C21_MasterLogoutKeepsStore ==
    [][\A s \in Sessions :
          (userId[s] \notin {Null, HARDCODED_CLIENT_ID} /\ ClickLogout(s))
          => UNCHANGED <<statusDoc, chats>>]_vars

\* A master logged out while the store held the client's status and a message.
C21_Witness ==
    \E s \in Sessions :
        /\ Uid(s) # HARDCODED_CLIENT_ID
        /\ logoutBy[s] = "voluntary" /\ userId[s] = Null
        /\ statusDoc.exists /\ statusDoc.isLoggedIn
        /\ \E p \in Paths : chats[p] # {}

\* C22: a master session issues a send only while its clientStatus has
\* isLoggedIn; its submit of a text that is not blank issues one batch with
\* the master as sender whatever msgCount is, and the commit of that batch
\* adds exactly that one message and leaves the status document as it was.
C22_MasterSend ==
    [][\A s \in Sessions :
          userRole[s] = "master" =>
            /\ Len(inflight'[s]) > Len(inflight[s]) => clientStatus[s].isLoggedIn
            /\ (HandleSendMessage(s) /\ trim(newMessage[s]) # EmptyText)
               => /\ Len(inflight'[s]) = Len(inflight[s]) + 1
                  /\ inflight'[s][Len(inflight'[s])].kind = "batch"
                  /\ inflight'[s][Len(inflight'[s])].senderId = userId[s]
                  /\ modal'[s] = modal[s]
            /\ \A i \in 1..MaxInflight :
                 BatchSettled(s, i, TRUE)
                 => /\ statusDoc' = statusDoc
                    /\ MessageOf(inflight[s][i]) \notin chats[inflight[s][i].path]
                    /\ chats' = [chats EXCEPT ![inflight[s][i].path] =
                                    @ \cup {MessageOf(inflight[s][i])}]
                    /\ inflight[s][i].senderId = Uid(s)]_vars

\* A message of the master is stored, sent while the counter stood at the limit.
C22_Witness ==
    \E s \in Sessions :
        /\ userRole[s] = "master"
        /\ statusDoc.msgCount = MAX_MESSAGES_BEFORE_LOCK
        /\ clientStatus[s].msgCount = MAX_MESSAGES_BEFORE_LOCK
        /\ \E m \in chats[ChatPathOf(s)] :
               /\ m.senderId = userId[s]
               /\ \A p \in Paths : \A n \in chats[p] : n.timestamp <= m.timestamp

SystemMessages(S) == {m \in S : m.senderId = "SYSTEM"}

\* C23: a master's submit of the special code issues a normal message batch
\* with the typed text and the master as sender; its commit adds no SYSTEM
\* notice and leaves the status document as it was; and a stored msgCount at
\* the limit is changed by nothing but a client's login.
C23_MasterCodeIsNormal ==
    [][/\ \A s \in Sessions :
            userRole[s] = "master" =>
              /\ (HandleSendMessage(s) /\ IsCode(newMessage[s]))
                 => /\ Len(inflight'[s]) = Len(inflight[s]) + 1
                    /\ inflight'[s][Len(inflight'[s])].kind = "batch"
                    /\ inflight'[s][Len(inflight'[s])].text = trim(newMessage[s])
                    /\ inflight'[s][Len(inflight'[s])].senderId = userId[s]
              /\ \A i \in 1..MaxInflight : \A ok \in BOOLEAN :
                   BatchSettled(s, i, ok)
                   => /\ statusDoc' = statusDoc
                      /\ \A p \in Paths :
                            SystemMessages(chats'[p]) = SystemMessages(chats[p])
       /\ ( /\ statusDoc.exists
            /\ statusDoc.msgCount = MAX_MESSAGES_BEFORE_LOCK
            /\ statusDoc'.msgCount # MAX_MESSAGES_BEFORE_LOCK )
          => \E c \in Sessions : userRole[c] = "client" /\ HandleLogin(c, TRUE)]_vars

\* C24: a master's force logout while the status document does not exist
\* opens the error dialog, not the success dialog, and leaves the document
\* absent; an absent status never carries forceLogout.
C24_ForceLogoutOnAbsent ==
    [][/\ ~statusDoc.exists => ~statusDoc.forceLogout
       /\ \A s \in Sessions : \A ok \in BOOLEAN :
            (HandleMasterForceLogout(s, ok) /\ ~statusDoc.exists)
            => /\ modal'[s] = "error"
               /\ statusDoc' = Absent]_vars

\* A master holding a stale snapshot clicked force logout on the absent
\* document and got the error dialog.
C24_Witness ==
    \E s \in Sessions :
        /\ userRole[s] = "master" /\ clientStatus[s].isLoggedIn
        /\ ~statusDoc.exists
        /\ modal[s] = "error"

\* C25: in the open chat room an add() is issued only for an input that is not
\* blank and by an authenticated user, and carries that user's uid; an accepted
\* add() puts exactly one document with that uid into the collection and
\* clears the input, a rejected one changes neither; nothing else writes the
\* collection; and the page receives messages only once a user is set.
C25_RoomSend ==
    [][/\ Len(room'.pending) > Len(room.pending)
          => /\ trim(room.input) # EmptyText /\ room.user # Null
             /\ Len(room'.pending) = Len(room.pending) + 1
             /\ room'.pending[Len(room'.pending)].uid = room.user
             /\ room'.pending[Len(room'.pending)].text = room.input
       /\ \A i \in 1..MaxInflight :
            /\ AddSettled(i, TRUE)
               => /\ Cardinality(room'.chats) = Cardinality(room.chats) + 1
                  /\ room.chats \subseteq room'.chats
                  /\ \A m \in room'.chats \ room.chats :
                        m.uid = room.pending[i].uid /\ m.uid = RoomUid
                  /\ room'.input = EmptyText
            /\ AddSettled(i, FALSE)
               => room'.chats = room.chats /\ room'.input = room.input
       /\ room'.chats # room.chats
          => \E i \in 1..MaxInflight : AddSettled(i, TRUE)
       /\ room'.messages # room.messages => room.user # Null]_vars

\* The signed-in user's message is stored and shown, and a text is typed again.
C25_Witness ==
    /\ room.user = RoomUid
    /\ \E m \in room.chats : m.uid = RoomUid /\ m.text = Hi
    /\ room.messages = orderByTimestamp(room.chats)
    /\ room.pending = << >>
    /\ room.input = CodeTyped
====
